---- MODULE Spec2Model ----
(***************************************************************************)
(* WorkThread (src/WorkThread.py): a unit of background work owned by a     *)
(* controller (the UI thread).  The base class holds a thread handle and    *)
(* three threading.Event objects.  Concrete work types override             *)
(* codeToRunInThread, supportsCancelRequest and timerHandler; those         *)
(* overrides are not part of src/ and are modelled from their contract.     *)
(***************************************************************************)
EXTENDS Naturals, FiniteSets, Sequences, TLC

\* Bounds of the model
MaxWork == 2        \* the work body mutates the subject at most MaxWork times
MaxCycles == 2      \* the work body requests at most MaxCycles pauses

VARIABLES
    overrides,          \* which methods the instance's concrete type overrides
    threadHandle,       \* threading.Thread state: "initial", "started", "stopped"
    spawned,            \* number of background execution contexts ever spawned
    showResultsEvent,   \* threading.Event flag
    resumeEvent,        \* threading.Event flag
    cancelEvent,        \* threading.Event flag
    wpc,                \* position of the work body
    tpc,                \* position of the controller inside an overriding timerHandler
    subject,            \* self.pb: version of the object under work (number of mutations)
    snapshot,           \* the controller's last copy of the subject
    nShow,              \* number of showResultsEvent.set() calls by the worker
    nResume,            \* number of resumeEvent.set() calls by the controller
    ret                 \* last controller-side call and what it returned / raised

vars == <<overrides, threadHandle, spawned, showResultsEvent, resumeEvent,
          cancelEvent, wpc, tpc, subject, snapshot, nShow, nResume, ret>>

signals == <<showResultsEvent, resumeEvent, cancelEvent>>
thread == <<threadHandle, spawned, wpc>>
counters == <<nShow, nResume>>

Methods == {"codeToRunInThread", "supportsCancelRequest", "timerHandler"}

Terminal == {"completed", "cancelled"}
InBody == {"entry", "check", "work", "wait", "woken"}

Returned(op, val) == [op |-> op, val |-> val]

\* ---------------------------------------------------------------- __init__
\* The three events are created and cleared.
MutInitSignalsShowSet ==
    /\ showResultsEvent = TRUE
    /\ resumeEvent = FALSE
    /\ cancelEvent = FALSE

MutInitSignalsResumeSet ==
    /\ showResultsEvent = FALSE
    /\ resumeEvent = TRUE
    /\ cancelEvent = FALSE

InitSignals ==
    /\ showResultsEvent = FALSE
    /\ resumeEvent = FALSE
    /\ cancelEvent = FALSE

\* The thread object is created around codeToRunInThread but not started.
MutInitThreadStarted ==
    /\ threadHandle = "started"
    /\ spawned = 1
    /\ wpc = "entry"

InitThread ==
    /\ threadHandle = "initial"
    /\ spawned = 0
    /\ wpc = "idle"

\* WorkThread does not use ABCMeta, so @abc.abstractmethod does not stop the
\* construction of a type that overrides nothing.
Init ==
    /\ overrides \in SUBSET Methods
    /\ InitThread
    /\ InitSignals
    /\ tpc = "idle"
    /\ subject = 0
    /\ snapshot = 0
    /\ nShow = 0
    /\ nResume = 0
    /\ ret = Returned("__init__", "None")

\* ------------------------------------------------------- controller calls
\* cancelWorkThread: self.cancelEvent.set()
MutCancelNoSet ==
    /\ ret' = Returned("cancelWorkThread", "None")
    /\ UNCHANGED <<overrides, thread, signals, tpc, subject, snapshot, counters>>

MutCancelAlsoResumes ==
    /\ cancelEvent' = TRUE
    /\ resumeEvent' = TRUE
    /\ ret' = Returned("cancelWorkThread", "None")
    /\ UNCHANGED <<overrides, thread, showResultsEvent, tpc, subject, snapshot, counters>>

MutCancelToggle ==
    /\ cancelEvent' = ~cancelEvent
    /\ ret' = Returned("cancelWorkThread", "None")
    /\ UNCHANGED <<overrides, thread, showResultsEvent, resumeEvent, tpc,
                   subject, snapshot, counters>>

cancelWorkThread ==
    /\ cancelEvent' = TRUE
    /\ ret' = Returned("cancelWorkThread", "None")
    /\ UNCHANGED <<overrides, thread, showResultsEvent, resumeEvent, tpc,
                   subject, snapshot, counters>>

\* start: self.__threadHandle.start(); Thread.start raises RuntimeError when
\* the thread was started before, and spawns nothing.
MutStartRespawns ==
    /\ threadHandle' = "started"
    /\ spawned' = spawned + 1
    /\ wpc' = "entry"
    /\ ret' = Returned("start", "None")
    /\ UNCHANGED <<overrides, signals, tpc, subject, snapshot, counters>>

MutStartResetsSignals ==
    IF threadHandle = "initial"
    THEN /\ threadHandle' = "started"
         /\ spawned' = spawned + 1
         /\ wpc' = "entry"
         /\ cancelEvent' = FALSE
         /\ ret' = Returned("start", "None")
         /\ UNCHANGED <<overrides, showResultsEvent, resumeEvent, tpc, subject,
                        snapshot, counters>>
    ELSE /\ ret' = Returned("start", "RuntimeError")
         /\ UNCHANGED <<overrides, thread, signals, tpc, subject, snapshot, counters>>

MutStartRestartsStopped ==
    IF threadHandle # "started"
    THEN /\ threadHandle' = "started"
         /\ spawned' = 1
         /\ wpc' = "entry"
         /\ ret' = Returned("start", "None")
         /\ UNCHANGED <<overrides, signals, tpc, subject, snapshot, counters>>
    ELSE /\ ret' = Returned("start", "RuntimeError")
         /\ UNCHANGED <<overrides, thread, signals, tpc, subject, snapshot, counters>>

start ==
    IF threadHandle = "initial"
    THEN /\ threadHandle' = "started"
         /\ spawned' = spawned + 1
         /\ wpc' = "entry"
         /\ ret' = Returned("start", "None")
         /\ UNCHANGED <<overrides, signals, tpc, subject, snapshot, counters>>
    ELSE /\ ret' = Returned("start", "RuntimeError")
         /\ UNCHANGED <<overrides, thread, signals, tpc, subject, snapshot, counters>>

\* isAlive: self.__threadHandle.is_alive()
MutAliveOnceStarted == threadHandle # "initial"

alive == threadHandle = "started"

Bool(b) == IF b THEN "True" ELSE "False"

MutIsAliveJoins ==
    /\ wpc \notin {"entry", "check", "work", "wait", "woken"}
    /\ ret' = Returned("isAlive", Bool(alive))
    /\ UNCHANGED <<overrides, thread, signals, tpc, subject, snapshot, counters>>

isAlive ==
    /\ ret' = Returned("isAlive", Bool(alive))
    /\ UNCHANGED <<overrides, thread, signals, tpc, subject, snapshot, counters>>

\* supportsCancelRequest: the base returns False, an override returns True
MutSupportsCancelWhileAlive ==
    "supportsCancelRequest" \in overrides \/ threadHandle = "started"

supportsCancel == "supportsCancelRequest" \in overrides

supportsCancelRequest ==
    /\ ret' = Returned("supportsCancelRequest", Bool(supportsCancel))
    /\ UNCHANGED <<overrides, thread, signals, tpc, subject, snapshot, counters>>

\* timerHandler: the base does nothing and returns False.  An override
\* checks showResultsEvent; when it is set it displays the subject, then
\* sets resumeEvent, then clears showResultsEvent and returns True.
MutTimerBaseResumes ==
    /\ "timerHandler" \notin overrides
    /\ resumeEvent' = TRUE
    /\ ret' = Returned("timerHandler", "False")
    /\ UNCHANGED <<overrides, thread, showResultsEvent, cancelEvent, tpc, subject,
                   snapshot, counters>>

MutTimerBaseShows ==
    /\ "timerHandler" \notin overrides
    /\ showResultsEvent' = TRUE
    /\ ret' = Returned("timerHandler", "False")
    /\ UNCHANGED <<overrides, thread, resumeEvent, cancelEvent, tpc, subject,
                   snapshot, counters>>

timerHandlerBase ==
    /\ "timerHandler" \notin overrides
    /\ ret' = Returned("timerHandler", "False")
    /\ UNCHANGED <<overrides, thread, signals, tpc, subject, snapshot, counters>>

timerHandlerPoll ==
    /\ "timerHandler" \in overrides
    /\ tpc = "idle"
    /\ IF showResultsEvent
       THEN /\ tpc' = "display"
            /\ snapshot' = subject
            /\ UNCHANGED ret
       ELSE /\ ret' = Returned("timerHandler", "False")
            /\ UNCHANGED <<tpc, snapshot>>
    /\ UNCHANGED <<overrides, thread, signals, subject, counters>>

timerHandlerResume ==
    /\ tpc = "display"
    /\ resumeEvent' = TRUE
    /\ nResume' = nResume + 1
    /\ tpc' = "clear"
    /\ UNCHANGED <<overrides, thread, showResultsEvent, cancelEvent, subject,
                   snapshot, nShow, ret>>

timerHandlerClear ==
    /\ tpc = "clear"
    /\ showResultsEvent' = FALSE
    /\ tpc' = "idle"
    /\ ret' = Returned("timerHandler", "True")
    /\ UNCHANGED <<overrides, thread, resumeEvent, cancelEvent, subject,
                   snapshot, counters>>

timerHandler ==
    \/ timerHandlerBase
    \/ timerHandlerPoll
    \/ timerHandlerResume
    \/ timerHandlerClear

\* ---------------------------------------------------------- the work body
\* codeToRunInThread of the base class is "pass": it returns at once and the
\* thread stops.
codeToRunInThread ==
    /\ wpc = "entry"
    /\ "codeToRunInThread" \notin overrides
    /\ wpc' = "completed"
    /\ threadHandle' = "stopped"
    /\ UNCHANGED <<overrides, spawned, signals, tpc, subject, snapshot, counters, ret>>

\* An overriding work body: a loop of cancellation checkpoint, work, and
\* optional pause.
workEnter ==
    /\ wpc = "entry"
    /\ "codeToRunInThread" \in overrides
    /\ wpc' = "check"
    /\ UNCHANGED <<overrides, threadHandle, spawned, signals, tpc, subject,
                   snapshot, counters, ret>>

workCheckpoint ==
    /\ wpc = "check"
    /\ IF supportsCancel /\ cancelEvent
       THEN wpc' = "cancelled" /\ threadHandle' = "stopped"
       ELSE wpc' = "work" /\ UNCHANGED threadHandle
    /\ UNCHANGED <<overrides, spawned, signals, tpc, subject, snapshot, counters, ret>>

workMutate ==
    /\ wpc = "work"
    /\ subject < MaxWork
    /\ subject' = subject + 1
    /\ wpc' = "check"
    /\ UNCHANGED <<overrides, threadHandle, spawned, signals, tpc, snapshot,
                   counters, ret>>

workPause ==
    /\ wpc = "work"
    /\ nShow < MaxCycles
    /\ showResultsEvent' = TRUE
    /\ nShow' = nShow + 1
    /\ wpc' = "wait"
    /\ UNCHANGED <<overrides, threadHandle, spawned, resumeEvent, cancelEvent,
                   tpc, subject, snapshot, nResume, ret>>

workWakeResume ==
    /\ wpc = "wait"
    /\ resumeEvent
    /\ wpc' = "woken"
    /\ UNCHANGED <<overrides, threadHandle, spawned, signals, tpc, subject,
                   snapshot, counters, ret>>

workWakeCancel ==
    /\ wpc = "wait"
    /\ cancelEvent
    /\ wpc' = "cancelled"
    /\ threadHandle' = "stopped"
    /\ UNCHANGED <<overrides, spawned, signals, tpc, subject, snapshot, counters, ret>>

workClearResume ==
    /\ wpc = "woken"
    /\ resumeEvent' = FALSE
    /\ wpc' = "check"
    /\ UNCHANGED <<overrides, threadHandle, spawned, showResultsEvent, cancelEvent,
                   tpc, subject, snapshot, counters, ret>>

workReturn ==
    /\ wpc = "work"
    /\ wpc' = "completed"
    /\ threadHandle' = "stopped"
    /\ UNCHANGED <<overrides, spawned, signals, tpc, subject, snapshot, counters, ret>>

workBody ==
    \/ workEnter
    \/ workCheckpoint
    \/ workMutate
    \/ workPause
    \/ workWakeResume
    \/ workWakeCancel
    \/ workClearResume
    \/ workReturn

worker == codeToRunInThread \/ workBody

Next ==
    \/ cancelWorkThread
    \/ start
    \/ isAlive
    \/ supportsCancelRequest
    \/ timerHandlerBase
    \/ timerHandlerPoll
    \/ timerHandlerResume
    \/ timerHandlerClear
    \/ codeToRunInThread
    \/ workEnter
    \/ workCheckpoint
    \/ workMutate
    \/ workPause
    \/ workWakeResume
    \/ workWakeCancel
    \/ workClearResume
    \/ workReturn

Spec == Init /\ [][Next]_vars

\* The worker thread is scheduled, and the controller's timer keeps polling.
LiveSpec == Spec /\ WF_vars(worker) /\ WF_vars(timerHandler)

TypeOK ==
    /\ overrides \subseteq Methods
    /\ threadHandle \in {"initial", "started", "stopped"}
    /\ spawned \in 0..1
    /\ showResultsEvent \in BOOLEAN
    /\ resumeEvent \in BOOLEAN
    /\ cancelEvent \in BOOLEAN
    /\ wpc \in {"idle"} \cup InBody \cup Terminal
    /\ tpc \in {"idle", "display", "clear"}
    /\ subject \in 0..MaxWork
    /\ snapshot \in 0..MaxWork
    /\ nShow \in 0..MaxCycles
    /\ nResume \in 0..MaxCycles

\* A step in which the controller's call op returned (or raised)
Called(op) == ret' # ret /\ ret'.op = op

bodyOverridden == "codeToRunInThread" \in overrides
timerOverridden == "timerHandler" \in overrides

\* ------------------------------------------------------------------ claims

\* C1: when cancelWorkThread has been called and the worker is paused
\* (waiting for resumeEvent), the worker reaches a terminal state, whether
\* or not the controller ever sets resumeEvent.
C1_CancelWhilePausedTerminates ==
    (wpc = "wait" /\ ret.op = "cancelWorkThread") ~> (wpc \in Terminal)

\* the worker was cancelled out of its only pause, and resumeEvent was never set
C1_Witness ==
    /\ wpc = "cancelled"
    /\ ret.op = "cancelWorkThread"
    /\ nShow = 1
    /\ nResume = 0
    /\ ~resumeEvent

\* C2: the controller never sets resumeEvent more often than the worker has
\* set showResultsEvent, and a showResultsEvent seen set by an idle
\* controller is a request that has not been answered yet.
C2_OneHandshakePerPause ==
    /\ nResume <= nShow
    /\ (tpc = "idle" /\ showResultsEvent) => nResume < nShow
    /\ (tpc = "clear") => nResume >= 1

\* two pause requests, each answered once
C2_Witness ==
    /\ nShow = 2
    /\ nResume = 2
    /\ tpc = "idle"
    /\ ~showResultsEvent
    /\ wpc = "work"

\* C3: with fair polling by an overriding timerHandler and no cancel, a
\* paused worker always leaves Paused (no pause request is lost).
C3_NoPauseLost ==
    (wpc = "wait" /\ timerOverridden /\ ~cancelEvent) ~> (wpc # "wait" \/ cancelEvent)

\* C4: while the controller is displaying (reading) the subject the worker is
\* not running, the subject is the one the controller copied, and the
\* reading happens between the show-results set and the resume set.
C4_NoReadWhileMutating ==
    tpc = "display" =>
        /\ wpc \in {"wait", "cancelled"}
        /\ snapshot = subject
        /\ showResultsEvent
        /\ ~resumeEvent

\* the controller reads a subject the worker has mutated, in a second pause
C4_Witness ==
    /\ tpc = "display"
    /\ wpc = "wait"
    /\ subject = 2
    /\ nShow = 2
    /\ nResume = 1

\* C5: isAlive is false before start, true from start until the work body
\* returns, and false afterwards.
C5_AliveFromStartToReturn ==
    /\ [](/\ spawned = 0 => ~alive
          /\ wpc \in InBody => alive
          /\ wpc \in Terminal => ~alive)
    /\ [][(Called("start") /\ threadHandle = "initial") => alive']_vars

\* the thread ran, the body returned, and isAlive has reported False
C5_Witness ==
    /\ wpc \in Terminal
    /\ spawned = 1
    /\ ret = Returned("isAlive", "False")

\* C6: no step clears cancelEvent once it is set, and a cancelWorkThread call
\* made when it is already set changes nothing of the task.
C6_CancelMonotonic ==
    [][/\ cancelEvent => cancelEvent'
       /\ (cancelEvent /\ Called("cancelWorkThread")) =>
             UNCHANGED <<overrides, thread, signals, tpc, subject, snapshot, counters>>]_vars

\* cancelEvent is still set after the worker has terminated and the
\* controller has made a further call
C6_Witness ==
    /\ cancelEvent
    /\ wpc \in Terminal
    /\ ret.op = "isAlive"

\* C7: start leaves the three signals as they are, and when cancelEvent is
\* set before start, a cancel-supporting work body never mutates the subject
\* and never gets past its first checkpoint.
C7_CancelBeforeStart ==
    /\ [][Called("start") => UNCHANGED signals]_vars
    /\ []((threadHandle = "initial" /\ cancelEvent /\ supportsCancel /\ bodyOverridden)
            => [](subject = 0 /\ wpc \in {"idle", "entry", "check", "cancelled"}))

\* start was the controller's last call, cancelEvent was set before it, and
\* the worker has exited at its checkpoint
C7_Witness ==
    /\ ret = Returned("start", "None")
    /\ cancelEvent
    /\ supportsCancel
    /\ wpc = "cancelled"
    /\ subject = 0

\* C8: a type that does not override codeToRunInThread never gets its
\* (empty) body run: constructing or starting it is an error.
C8_AbstractBodyFailsLoudly ==
    ~bodyOverridden => (wpc = "idle" /\ threadHandle = "initial")

\* C9: at most one background context is ever spawned, and a start call on
\* a thread that was started before raises and spawns nothing.
C9_StartAtMostOnce ==
    /\ [](spawned <= 1)
    /\ [][(Called("start") /\ threadHandle # "initial") =>
            /\ ret'.val = "RuntimeError"
            /\ UNCHANGED <<thread, signals, subject>>]_vars

\* a second start has raised, with one context spawned
C9_Witness ==
    /\ ret = Returned("start", "RuntimeError")
    /\ spawned = 1

\* C10: cancelWorkThread can be called in every state, and sets cancelEvent
\* while leaving the other two signals and the thread as they are.
C10_CancelFrame ==
    /\ [](ENABLED cancelWorkThread)
    /\ [][Called("cancelWorkThread") =>
            /\ cancelEvent'
            /\ UNCHANGED <<showResultsEvent, resumeEvent, thread, tpc, subject,
                           snapshot, counters>>]_vars

\* cancelWorkThread has returned while the worker stays paused and alive
C10_Witness ==
    /\ ret.op = "cancelWorkThread"
    /\ cancelEvent
    /\ wpc = "wait"
    /\ alive
    /\ showResultsEvent
    /\ ~resumeEvent

\* C11: the base timerHandler returns False and changes no signal and
\* nothing of the thread, so for a type that does not override it
\* resumeEvent is never set, and a paused worker is never resumed.
C11_DefaultTimerHandlerNoOp ==
    /\ [][(Called("timerHandler") /\ ~timerOverridden) =>
            /\ ret'.val = "False"
            /\ UNCHANGED <<overrides, thread, signals, tpc, subject, snapshot, counters>>]_vars
    /\ [](~timerOverridden => (~resumeEvent /\ nResume = 0 /\ wpc # "woken"))

\* the base timerHandler has returned False while the worker stays paused
C11_Witness ==
    /\ ~timerOverridden
    /\ ret = Returned("timerHandler", "False")
    /\ wpc = "wait"
    /\ showResultsEvent
    /\ ~cancelEvent

\* C12: as long as the controller has made no call after construction, the
\* three signals are unset and the thread exists but has not been started
\* (the work body has not run).
C12_FreshlyConstructed ==
    ret.op = "__init__" =>
        /\ ~showResultsEvent
        /\ ~resumeEvent
        /\ ~cancelEvent
        /\ threadHandle = "initial"
        /\ spawned = 0
        /\ wpc = "idle"
        /\ subject = 0

\* a constructed instance of a type overriding all three methods, not started
C12_Witness ==
    /\ ret = Returned("__init__", "None")
    /\ overrides = Methods
    /\ threadHandle = "initial"
    /\ ~alive

\* C13: as long as the work body has never paused, showResultsEvent and
\* resumeEvent are unset and no resume was issued; in particular this holds
\* when the body has completed and isAlive is false.
C13_NoPauseNoHandshake ==
    nShow = 0 =>
        /\ ~showResultsEvent
        /\ ~resumeEvent
        /\ nResume = 0
        /\ tpc = "idle"
        /\ (wpc = "completed" => ~alive)

\* an overriding body did all its work, never paused, and isAlive reports False
C13_Witness ==
    /\ bodyOverridden
    /\ wpc = "completed"
    /\ nShow = 0
    /\ subject = 2
    /\ ret = Returned("isAlive", "False")

\* C14: for a type that does not override it, supportsCancelRequest returns
\* False in every state and changes nothing; the capability never changes.
C14_SupportsCancelDefaultFalse ==
    [][/\ (Called("supportsCancelRequest") /\ "supportsCancelRequest" \notin overrides) =>
             /\ ret'.val = "False"
             /\ UNCHANGED <<overrides, thread, signals, tpc, subject, snapshot, counters>>
       /\ supportsCancel' = supportsCancel]_vars

\* the base supportsCancelRequest returned False while the thread was alive
\* and cancelEvent set
C14_Witness ==
    /\ ret = Returned("supportsCancelRequest", "False")
    /\ alive
    /\ cancelEvent

\* C15: the controller displays only a pause request not answered yet; the
\* worker wakes from a wait only when the controller has set resumeEvent for
\* that same pause; and resumeEvent is unset whenever the worker begins a wait.
C15_CycleOrdering ==
    /\ [](tpc = "display" => (nShow > nResume /\ showResultsEvent))
    /\ [][/\ (wpc = "wait" /\ wpc' = "woken") => (resumeEvent /\ nResume = nShow)
          /\ (wpc # "wait" /\ wpc' = "wait") => ~resumeEvent']_vars

\* the worker has been woken by the resume of its second pause
C15_Witness ==
    /\ wpc = "woken"
    /\ nShow = 2
    /\ nResume = 2
    /\ resumeEvent

\* C16: once the thread has stopped it stays stopped: the worker stays in
\* its terminal state, isAlive stays false and no context is spawned again.
C16_TerminalIsFinal ==
    [][(threadHandle = "stopped" \/ wpc \in Terminal) =>
          /\ threadHandle' = "stopped"
          /\ wpc' = wpc
          /\ spawned' = spawned
          /\ ~alive']_vars

\* after termination the controller called timerHandler and cancelWorkThread
\* (cancelEvent set, worker completed) and the thread is still stopped
C16_Witness ==
    /\ wpc = "completed"
    /\ threadHandle = "stopped"
    /\ cancelEvent
    /\ ret.op = "timerHandler"

\* C17: the worker becomes Cancelled only from a checkpoint or a wait at
\* which cancelEvent is set; a Cancelled task has cancelEvent set, and a task
\* that terminated with cancelEvent unset is Completed.
C17_CancelledOnlyByCancel ==
    /\ [](wpc = "cancelled" => cancelEvent)
    /\ []((wpc \in Terminal /\ ~cancelEvent) => wpc = "completed")
    /\ [][(wpc # "cancelled" /\ wpc' = "cancelled") =>
            (cancelEvent /\ wpc \in {"check", "wait"})]_vars

\* the worker was cancelled at a checkpoint after one mutation, without pausing
C17_Witness ==
    /\ wpc = "cancelled"
    /\ cancelEvent
    /\ subject = 1
    /\ nShow = 0

\* C18: every controller-side call can be made and every step of
\* timerHandler can be taken in every state of the worker; the worker is
\* the only side that can be blocked, and only in a wait with both
\* resumeEvent and cancelEvent unset.
C18_ControllerNeverBlocks ==
    /\ ENABLED isAlive
    /\ ENABLED cancelWorkThread
    /\ ENABLED supportsCancelRequest
    /\ ENABLED start
    /\ ENABLED timerHandler
    /\ (tpc = "display" => ENABLED timerHandlerResume)
    /\ (tpc = "clear" => ENABLED timerHandlerClear)
    /\ ((wpc \in InBody /\ ~ENABLED worker) <=>
            (wpc = "wait" /\ ~resumeEvent /\ ~cancelEvent))

\* isAlive returned True while the worker is blocked in its wait
C18_Witness ==
    /\ ret = Returned("isAlive", "True")
    /\ wpc = "wait"
    /\ ~resumeEvent
    /\ ~cancelEvent
    /\ tpc = "idle"
====
